---------------------------- MODULE Spec2Model ----------------------------
(***************************************************************************)
(* A model of the school distance calculator (jfsteacher/cdes): the CSV    *)
(* parser and normalizer (utils/csvParser.ts), the haversine distance      *)
(* engine (utils/distance.ts), the geocoding collaborator                  *)
(* (utils/geocoding.ts), and the React orchestration of App.tsx with the   *)
(* PositionInput and FileUpload components that invoke it.                 *)
(*                                                                         *)
(* Representation of JavaScript values:                                    *)
(*   - a string is a TLA+ string, read character by character with SubSeq; *)
(*   - an optional value (T | undefined) is a tuple: <<>> is undefined and *)
(*     <<v>> is the value v;                                               *)
(*   - a finite number x is the integer x * NumScale (two decimals); NaN   *)
(*     and the infinities are three integers outside the finite range.     *)
(***************************************************************************)
EXTENDS Integers, Sequences, FiniteSets, TLC

(***************************************************************************)
(* Numbers                                                                 *)
(***************************************************************************)

\* A finite number x is represented by the integer x * NumScale.
NumScale == 10 * 10

\* Finite representable magnitudes stay below FiniteLimit.
FiniteLimit == 10 * 1000 * 1000

NaN == 0 - (4 * FiniteLimit)

Infinity == 2 * FiniteLimit

NegInfinity == 0 - (2 * FiniteLimit)

isNaN(x) == x = NaN

IsFiniteNum(x) == x # NaN /\ x # Infinity /\ x # NegInfinity

Abs(x) == IF x < 0 THEN 0 - x ELSE x

Sign(x) == IF x < 0 THEN 0 - 1 ELSE 1

(***************************************************************************)
(* Optional values                                                         *)
(***************************************************************************)

Undefined == <<>>

Some(v) == <<v>>

\* JavaScript truthiness of an optional string: undefined and "" are falsy.
Truthy(opt) == opt # Undefined /\ opt # Some("")

\* row[key] on a CSVRow: undefined when the key is absent.
Get(row, key) == IF key \in DOMAIN row THEN Some(row[key]) ELSE Undefined

(***************************************************************************)
(* Strings                                                                 *)
(***************************************************************************)

Char(s, i) == SubSeq(s, i, i)

\* String.prototype.startsWith(prefix, i - 1)
StartsWithAt(s, i, prefix) ==
    i + Len(prefix) - 1 <= Len(s) /\ SubSeq(s, i, i + Len(prefix) - 1) = prefix

Range(seq) == {seq[i] : i \in DOMAIN seq}

WhiteSpace == {" ", "\t", "\n", "\r"}

RECURSIVE TrimStart(_)
TrimStart(s) ==
    IF Len(s) > 0 /\ Char(s, 1) \in WhiteSpace
    THEN TrimStart(SubSeq(s, 2, Len(s)))
    ELSE s

RECURSIVE TrimEnd(_)
TrimEnd(s) ==
    IF Len(s) > 0 /\ Char(s, Len(s)) \in WhiteSpace
    THEN TrimEnd(SubSeq(s, 1, Len(s) - 1))
    ELSE s

\* String.prototype.trim
trim(s) == TrimEnd(TrimStart(s))

\* s.replace(/['"]/g, '')
RECURSIVE StripQuotes(_)
StripQuotes(s) ==
    IF Len(s) = 0 THEN ""
    ELSE IF Char(s, 1) \in {"'", "\""}
         THEN StripQuotes(SubSeq(s, 2, Len(s)))
         ELSE Char(s, 1) \o StripQuotes(SubSeq(s, 2, Len(s)))

\* String.prototype.split with a one-character separator: the pieces between
\* the separators, so a string without separator yields one piece.
RECURSIVE SplitFrom(_, _, _)
SplitFrom(s, sep, i) ==
    LET hits == {k \in i..Len(s) : Char(s, k) = sep}
    IN  IF hits = {} THEN <<SubSeq(s, i, Len(s))>>
        ELSE LET k == CHOOSE h \in hits : \A g \in hits : h <= g
             IN  <<SubSeq(s, i, k - 1)>> \o SplitFrom(s, sep, k + 1)

split(s, sep) == SplitFrom(s, sep, 1)

\* The letters String.prototype.toLowerCase changes, within the alphabet of
\* the modelled texts.
UpperChars == "ABCDEFGHIJKLMNOPQRSTUVWXYZÉÈ"

LowerChars == "abcdefghijklmnopqrstuvwxyzéè"

LowerChar(c) ==
    IF \E k \in 1..Len(UpperChars) : Char(UpperChars, k) = c
    THEN Char(LowerChars, CHOOSE k \in 1..Len(UpperChars) : Char(UpperChars, k) = c)
    ELSE c

RECURSIVE toLowerCase(_)
toLowerCase(s) ==
    IF Len(s) = 0 THEN ""
    ELSE LowerChar(Char(s, 1)) \o toLowerCase(SubSeq(s, 2, Len(s)))

\* String.prototype.includes
includes(s, sub) ==
    \E i \in 1..(Len(s) - Len(sub) + 1) : SubSeq(s, i, i + Len(sub) - 1) = sub

\* Array.prototype.join
RECURSIVE join(_, _)
join(parts, sep) ==
    IF Len(parts) = 0 THEN ""
    ELSE IF Len(parts) = 1 THEN parts[1]
         ELSE parts[1] \o sep \o join(Tail(parts), sep)

(***************************************************************************)
(* parseFloat                                                              *)
(***************************************************************************)

Digits == "0123456789"

IsDigit(c) == \E k \in 1..10 : Char(Digits, k) = c

DigitVal(c) == (CHOOSE k \in 1..10 : Char(Digits, k) = c) - 1

\* The number of leading digits of s from position i on.
RECURSIVE DigitRun(_, _)
DigitRun(s, i) ==
    IF i <= Len(s) /\ IsDigit(Char(s, i)) THEN 1 + DigitRun(s, i + 1) ELSE 0

\* The value of the n digits of s from position i on.
RECURSIVE DigitsValue(_, _, _)
DigitsValue(s, i, n) ==
    IF n = 0 THEN 0
    ELSE DigitsValue(s, i, n - 1) * 10 + DigitVal(Char(s, i + n - 1))

\* The fraction digits kept: two decimals (NumScale), the rest is cut.
FractionValue(s, i, n) ==
    IF n = 0 THEN 0
    ELSE IF n = 1 THEN DigitVal(Char(s, i)) * 10
         ELSE DigitVal(Char(s, i)) * 10 + DigitVal(Char(s, i + 1))

\* parseFloat of an unsigned literal starting at position i of s: "Infinity",
\* or digits with an optional fraction; anything after the longest numeric
\* prefix is ignored; no numeric prefix is NaN.
ParseUnsigned(s, i) ==
    IF StartsWithAt(s, i, "Infinity") THEN Infinity
    ELSE LET n == DigitRun(s, i)
             dot == i + n <= Len(s) /\ Char(s, i + n) = "."
             m == IF dot THEN DigitRun(s, i + n + 1) ELSE 0
         IN  IF n = 0 /\ m = 0 THEN NaN
             ELSE DigitsValue(s, i, n) * NumScale + FractionValue(s, i + n + 1, m)

parseFloat(str) ==
    LET s == TrimStart(str)
    IN  IF Len(s) > 0 /\ Char(s, 1) = "-"
        THEN LET v == ParseUnsigned(s, 2)
             IN  IF v = NaN THEN NaN
                 ELSE IF v = Infinity THEN NegInfinity ELSE 0 - v
        ELSE IF Len(s) > 0 /\ Char(s, 1) = "+"
             THEN ParseUnsigned(s, 2)
             ELSE ParseUnsigned(s, 1)

(***************************************************************************)
(* utils/csvParser.ts                                                      *)
(***************************************************************************)

\* parseCSVLine: a double quote toggles inQuotes and is dropped; a separator
\* outside quotes ends the field; every other character is kept.
RECURSIVE parseCSVLineFrom(_, _, _, _, _, _)
parseCSVLineFrom(line, separator, i, result, current, inQuotes) ==
    IF i > Len(line) THEN Append(result, current)
    ELSE LET char == Char(line, i)
         IN  IF char = "\""
             THEN parseCSVLineFrom(line, separator, i + 1, result, current, ~inQuotes)
             ELSE IF char = separator /\ ~inQuotes
                  THEN parseCSVLineFrom(line, separator, i + 1,
                                        Append(result, current), "", inQuotes)
                  ELSE parseCSVLineFrom(line, separator, i + 1, result,
                                        current \o char, inQuotes)

\* parseCSVLine splitting at every separator, quoted or not.
parseCSVLineUnquoted(line, separator) == split(line, separator)

parseCSVLine(line, separator) == parseCSVLineFrom(line, separator, 1, <<>>, "", FALSE)

\* MakeRow keeping the values as they were parsed.
MakeRowUncleaned(headers, values) ==
    [h \in Range(headers) |->
        LET last == CHOOSE j \in DOMAIN headers :
                        /\ headers[j] = h
                        /\ \A k \in DOMAIN headers : headers[k] = h => k <= j
        IN  values[last]]

\* headers.forEach((header, index) => row[header] = clean(values[index])):
\* a header name that occurs twice keeps the value of its last column.
MakeRow(headers, values) ==
    [h \in Range(headers) |->
        LET last == CHOOSE j \in DOMAIN headers :
                        /\ headers[j] = h
                        /\ \A k \in DOMAIN headers : headers[k] = h => k <= j
        IN  StripQuotes(trim(values[last]))]

\* parseCSVRows accepting a line that has more fields than the header.
RECURSIVE parseCSVRowsAtLeast(_, _, _)
parseCSVRowsAtLeast(lines, headers, i) ==
    IF i > Len(lines) THEN <<>>
    ELSE LET values == parseCSVLine(lines[i], ";")
         IN  IF Len(values) >= Len(headers)
             THEN <<MakeRow(headers, values)>> \o parseCSVRowsAtLeast(lines, headers, i + 1)
             ELSE parseCSVRowsAtLeast(lines, headers, i + 1)

RECURSIVE parseCSVRows(_, _, _)
parseCSVRows(lines, headers, i) ==
    IF i > Len(lines) THEN <<>>
    ELSE LET values == parseCSVLine(lines[i], ";")
         IN  IF Len(values) = Len(headers)
             THEN <<MakeRow(headers, values)>> \o parseCSVRows(lines, headers, i + 1)
             ELSE parseCSVRows(lines, headers, i + 1)

\* parseCSV splitting the text as it is, without trim().
parseCSVUntrimmed(csvText) ==
    LET lines == split(csvText, "\n")
    IN  IF Len(lines) < 2 THEN <<>>
        ELSE LET rawHeaders == split(lines[1], ";")
                 headers == [j \in DOMAIN rawHeaders |-> StripQuotes(trim(rawHeaders[j]))]
             IN  parseCSVRows(lines, headers, 2)

parseCSV(csvText) ==
    LET lines == split(trim(csvText), "\n")
    IN  IF Len(lines) < 2 THEN <<>>
        ELSE LET rawHeaders == split(lines[1], ";")
                 headers == [j \in DOMAIN rawHeaders |-> StripQuotes(trim(rawHeaders[j]))]
             IN  parseCSVRows(lines, headers, 2)

genericNameKeys ==
    <<"name", "nom", "Name", "Nom", "NAME", "NOM", "etablissement", "ecole", "school">>

genericLatKeys == <<"latitude", "lat", "Latitude", "Lat", "LATITUDE", "LAT">>

genericLonKeys ==
    <<"longitude", "lon", "lng", "Longitude", "Lon", "Lng", "LONGITUDE", "LON", "LNG">>

genericAddressKeys == <<"address", "adresse", "Address", "Adresse", "ADDRESS", "ADRESSE">>

genericTypeKeys == <<"type", "Type", "TYPE", "category", "Category", "CATEGORY">>

\* keys.find(key => key in row): the first candidate present, or undefined.
FindKey(keys, row) ==
    IF \E j \in DOMAIN keys : keys[j] \in DOMAIN row
    THEN Some(keys[CHOOSE j \in DOMAIN keys :
                       /\ keys[j] \in DOMAIN row
                       /\ \A k \in 1..(j - 1) : keys[k] \notin DOMAIN row])
    ELSE Undefined

\* The generic branch of the map callback (the fallback column names).  The
\* object literal writes uai four times, the last write (row[uaiKey]) wins,
\* and it has no name property.
SchemeB(row, index) ==
    LET latKey == FindKey(genericLatKeys, row)
        lonKey == FindKey(genericLonKeys, row)
        nameKeyGeneric == FindKey(genericNameKeys, row)
        addressKey == FindKey(genericAddressKeys, row)
        typeKey == FindKey(genericTypeKeys, row)
    IN  IF ~Truthy(latKey) \/ ~Truthy(lonKey) \/ ~Truthy(nameKeyGeneric)
        THEN Undefined
        ELSE LET latitude == parseFloat(row[latKey[1]])
                 longitude == parseFloat(row[lonKey[1]])
             IN  IF isNaN(latitude) \/ isNaN(longitude)
                 THEN Undefined
                 ELSE Some([id |-> index,
                            name |-> Undefined,
                            uai |-> Get(row, "uai"),
                            latitude |-> latitude,
                            longitude |-> longitude,
                            address |-> IF Truthy(addressKey)
                                        THEN Get(row, addressKey[1]) ELSE Undefined,
                            type |-> IF Truthy(typeKey)
                                     THEN Get(row, typeKey[1]) ELSE Undefined,
                            distance |-> Undefined])

\* SchemeAPosition accepting a position of two or more tokens.
SchemeAPositionLenient(row) ==
    LET positionParts == split(row["position"], ",")
    IN  IF Len(positionParts) < 2 THEN Undefined
        ELSE LET latitude == parseFloat(trim(positionParts[1]))
                 longitude == parseFloat(trim(positionParts[2]))
             IN  IF isNaN(latitude) \/ isNaN(longitude)
                 THEN Undefined
                 ELSE Some([latitude |-> latitude, longitude |-> longitude])

\* The position field of the official dataset, "latitude,longitude": the
\* coordinates, or undefined where the callback returns null.
SchemeAPosition(row) ==
    LET positionParts == split(row["position"], ",")
    IN  IF Len(positionParts) # 2 THEN Undefined
        ELSE LET latitude == parseFloat(trim(positionParts[1]))
                 longitude == parseFloat(trim(positionParts[2]))
             IN  IF isNaN(latitude) \/ isNaN(longitude)
                 THEN Undefined
                 ELSE Some([latitude |-> latitude, longitude |-> longitude])

\* SchemeAType without the 'Établissement' default.
SchemeATypeNoDefault(row) ==
    LET sector == IF Get(row, "secteur") # Undefined THEN row["secteur"] ELSE ""
    IN  IF Truthy(Get(row, "ips"))
        THEN sector \o " (IPS: " \o row["ips"] \o ")"
        ELSE sector

\* let type = row[sectorKey] || 'Établissement'; if (row[ipsKey]) type += ...
SchemeAType(row) ==
    LET sector == IF Truthy(Get(row, "secteur"))
                  THEN row["secteur"] ELSE "Établissement"
    IN  IF Truthy(Get(row, "ips"))
        THEN sector \o " (IPS: " \o row["ips"] \o ")"
        ELSE sector

\* The official-dataset branch of the map callback.
SchemeA(row, index) ==
    LET position == SchemeAPosition(row)
        addressParts ==
            (IF Truthy(Get(row, "libelle_commune"))
             THEN <<row["libelle_commune"]>> ELSE <<>>)
            \o (IF Truthy(Get(row, "libelle_departement"))
                THEN <<row["libelle_departement"]>> ELSE <<>>)
    IN  IF position = Undefined
        THEN Undefined
        ELSE Some([id |-> index,
                   name |-> Some(row["appellation_officielle"]),
                   uai |-> Undefined,
                   latitude |-> position[1].latitude,
                   longitude |-> position[1].longitude,
                   address |-> IF Len(addressParts) > 0
                               THEN Some(join(addressParts, ", "))
                               ELSE Undefined,
                   type |-> Some(SchemeAType(row)),
                   distance |-> Undefined])

\* if (!row[nameKey] || !row[positionKey]): the generic branch is taken.
TakesSchemeB(row) ==
    ~Truthy(Get(row, "appellation_officielle")) \/ ~Truthy(Get(row, "position"))

\* normalizeRow trying the generic columns when the official branch gives
\* nothing.
normalizeRowFallingThrough(row, index) ==
    IF TakesSchemeB(row)
    THEN SchemeB(row, index)
    ELSE IF SchemeA(row, index) = Undefined
         THEN SchemeB(row, index)
         ELSE SchemeA(row, index)

\* The map callback of csvRowsToSchools: a School, or undefined for null.
normalizeRow(row, index) ==
    IF TakesSchemeB(row)
    THEN SchemeB(row, index)
    ELSE SchemeA(row, index)

\* csvRowsToSchoolsFrom numbering the institutions it keeps: the id is the
\* count of the rows accepted before.
RECURSIVE csvRowsToSchoolsFromDense(_, _)
csvRowsToSchoolsFromDense(rows, i) ==
    IF i > Len(rows) THEN <<>>
    ELSE LET accepted ==
                 Cardinality({k \in 1..(i - 1) : normalizeRow(rows[k], k - 1) # Undefined})
         IN  normalizeRow(rows[i], accepted) \o csvRowsToSchoolsFromDense(rows, i + 1)

\* rows.map(normalize).filter(school => school !== null); index is 0-based.
RECURSIVE csvRowsToSchoolsFrom(_, _)
csvRowsToSchoolsFrom(rows, i) ==
    IF i > Len(rows) THEN <<>>
    ELSE normalizeRow(rows[i], i - 1) \o csvRowsToSchoolsFrom(rows, i + 1)

csvRowsToSchools(rows) == csvRowsToSchoolsFrom(rows, 1)

(***************************************************************************)
(* utils/distance.ts                                                       *)
(*                                                                         *)
(* The floating-point haversine formula is computed in fixed point: a real *)
(* r is the integer r * FxOne (eight decimals), small enough for every     *)
(* intermediate product to stay within TLC's 32-bit integers.              *)
(***************************************************************************)

FxOne == 10000 * 10000

FxHalfWord == 10000

PiFx == 314159265

HalfPiFx == 157079633

TwoPiFx == 628318531

\* Math.atan(0.5)
AtanHalfFx == 46364761

\* Truncating division of a signed integer by a positive one.
DivTrunc(a, n) == Sign(a) * (Abs(a) \div n)

\* The exact product of two non-negative fixed-point integers, as the two
\* words <<hi, lo>> of hi * FxOne + lo, from the products of the half words.
Mul2(a, b) ==
    LET ah == a \div FxHalfWord
        al == a % FxHalfWord
        bh == b \div FxHalfWord
        bl == b % FxHalfWord
        mid == ah * bl + al * bh
        low == (mid % FxHalfWord) * FxHalfWord + al * bl
    IN  <<ah * bh + mid \div FxHalfWord + low \div FxOne, low % FxOne>>

Add2(p, q) == <<p[1] + q[1] + (p[2] + q[2]) \div FxOne, (p[2] + q[2]) % FxOne>>

Sub2(p, q) ==
    IF p[2] >= q[2] THEN <<p[1] - q[1], p[2] - q[2]>>
    ELSE <<p[1] - q[1] - 1, p[2] + FxOne - q[2]>>

Leq2(p, q) == p[1] < q[1] \/ (p[1] = q[1] /\ p[2] <= q[2])

\* The two-word p times the fixed-point factor k <= 1, divided by FxOne.
Scale2(p, k) == Add2(Mul2(p[1], k), <<0, Mul2(p[2], k)[1]>>)

\* a * b / FxOne for signed fixed-point integers.
MulFx(a, b) == Sign(a) * Sign(b) * Mul2(Abs(a), Abs(b))[1]

\* The n further decimal digits of r / b (long division), for 0 <= r < b.
RECURSIVE DivDigits(_, _, _)
DivDigits(r, b, n) ==
    IF n = 0 THEN 0
    ELSE LET d == (r * 10) \div b
             rest == (r * 10) % b
             scale == IF n = 8 THEN 10000000 ELSE IF n = 7 THEN 1000000
                      ELSE IF n = 6 THEN 100000 ELSE IF n = 5 THEN 10000
                      ELSE IF n = 4 THEN 1000 ELSE IF n = 3 THEN 100
                      ELSE IF n = 2 THEN 10 ELSE 1
         IN  d * scale + DivDigits(rest, b, n - 1)

\* a / b in fixed point, for a >= 0 and b > 0.
DivFx(a, b) == (a \div b) * FxOne + DivDigits(a % b, b, 8)

\* Math.sqrt of the two-word p in [0, 1]: the largest r with r * r <= p, by
\* bisection.
RECURSIVE SqrtBetween(_, _, _)
SqrtBetween(p, lo, hi) ==
    IF hi - lo <= 1 THEN (IF Leq2(Mul2(hi, hi), p) THEN hi ELSE lo)
    ELSE LET mid == (lo + hi) \div 2
         IN  IF Leq2(Mul2(mid, mid), p)
             THEN SqrtBetween(p, mid, hi)
             ELSE SqrtBetween(p, lo, mid)

Sqrt2(p) == SqrtBetween(p, 0, FxOne)

\* The Taylor series x - x^3/3! + x^5/5! - ... (sine) or 1 - x^2/2! + ...
\* (cosine): term is the current term and n the index of its last factor.
RECURSIVE TaylorSum(_, _, _, _)
TaylorSum(term, x2, n, left) ==
    IF left = 0 \/ term = 0 THEN 0
    ELSE term + TaylorSum(0 - DivTrunc(MulFx(term, x2), (n + 1) * (n + 2)),
                          x2, n + 2, left - 1)

TaylorTerms == 12

\* Sine and cosine lie in [-1, 1].
ClampUnit(v) == IF v > FxOne THEN FxOne ELSE IF v < 0 - FxOne THEN 0 - FxOne ELSE v

\* An angle brought into [-pi, pi].
ReduceAngle(x) ==
    LET r == x % TwoPiFx
    IN  IF r > PiFx THEN r - TwoPiFx ELSE r

\* Math.sin
SinFx(x) ==
    LET r == ReduceAngle(x)
        f == IF r > HalfPiFx THEN PiFx - r
             ELSE IF r < 0 - HalfPiFx THEN 0 - PiFx - r ELSE r
    IN  ClampUnit(TaylorSum(f, MulFx(f, f), 1, TaylorTerms))

\* Math.cos
CosFx(x) ==
    LET r == Abs(ReduceAngle(x))
    IN  IF r > HalfPiFx
        THEN 0 - ClampUnit(TaylorSum(FxOne, MulFx(PiFx - r, PiFx - r), 0, TaylorTerms))
        ELSE ClampUnit(TaylorSum(FxOne, MulFx(r, r), 0, TaylorTerms))

\* The series u - u^3/3 + u^5/5 - ... for |u| <= 1/2.
RECURSIVE AtanSeries(_, _, _, _)
AtanSeries(power, u2, n, left) ==
    IF left = 0 \/ power = 0 THEN 0
    ELSE DivTrunc(power, n) + AtanSeries(0 - MulFx(power, u2), u2, n + 2, left - 1)

AtanTerms == 16

\* Math.atan on [0, 1]: the series up to 1/2, and beyond it
\* atan(t) = atan(1/2) + atan((t - 1/2) / (1 + t/2)).
AtanFx(t) ==
    IF t <= FxOne \div 2 THEN AtanSeries(t, MulFx(t, t), 1, AtanTerms)
    ELSE LET u == DivFx(t - (FxOne \div 2), FxOne + (t \div 2))
         IN  AtanHalfFx + AtanSeries(u, MulFx(u, u), 1, AtanTerms)

\* Math.atan2(y, x) for y >= 0 and x >= 0.
Atan2Fx(y, x) ==
    IF y = 0 THEN 0
    ELSE IF x = 0 THEN HalfPiFx
         ELSE IF y <= x THEN AtanFx(DivFx(y, x))
              ELSE HalfPiFx - AtanFx(DivFx(x, y))

\* degrees * (Math.PI / 180), the degrees in hundredths: pi / 18000 is
\* 1.74532925e-4, that is 17453.2925 in fixed point.
toRadians(degrees) ==
    Sign(degrees) * (Abs(degrees) * 17453 + (Abs(degrees) * 2925) \div 10000)

\* Earth's radius in kilometers
R == 6371

\* parseFloat((R * c).toFixed(2)): the kilometers in hundredths, rounded
\* half up, computed from the ten-thousandths.
RoundedKm(c) ==
    LET tenThousandths == R * (c \div FxHalfWord) + (R * (c % FxHalfWord)) \div FxHalfWord
    IN  (tenThousandths + 50) \div 100

\* calculateDistance with the cosine of the first latitude taken twice.
calculateDistanceOneCosine(lat1, lon1, lat2, lon2) ==
    IF ~(IsFiniteNum(lat1) /\ IsFiniteNum(lon1) /\ IsFiniteNum(lat2) /\ IsFiniteNum(lon2))
    THEN NaN   \* Math.sin and Math.cos of an infinite or NaN angle are NaN
    ELSE LET dLat == toRadians(lat2 - lat1)
             dLon == toRadians(lon2 - lon1)
             sLat == Abs(SinFx(DivTrunc(dLat, 2)))
             sLon == Abs(SinFx(DivTrunc(dLon, 2)))
             cosines == MulFx(CosFx(toRadians(lat1)), CosFx(toRadians(lat1)))
             \* a, in the two words of a * FxOne * FxOne
             a == Add2(Mul2(sLat, sLat), Scale2(Mul2(sLon, sLon), Abs(cosines)))
             one == <<FxOne, 0>>
         IN  IF cosines < 0 \/ ~Leq2(a, one)
             THEN NaN   \* Math.sqrt of a negative number
             ELSE LET c == 2 * Atan2Fx(Sqrt2(a), Sqrt2(Sub2(one, a)))
                  IN  RoundedKm(c)

calculateDistance(lat1, lon1, lat2, lon2) ==
    IF ~(IsFiniteNum(lat1) /\ IsFiniteNum(lon1) /\ IsFiniteNum(lat2) /\ IsFiniteNum(lon2))
    THEN NaN   \* Math.sin and Math.cos of an infinite or NaN angle are NaN
    ELSE LET dLat == toRadians(lat2 - lat1)
             dLon == toRadians(lon2 - lon1)
             sLat == Abs(SinFx(DivTrunc(dLat, 2)))
             sLon == Abs(SinFx(DivTrunc(dLon, 2)))
             cosines == MulFx(CosFx(toRadians(lat1)), CosFx(toRadians(lat2)))
             \* a, in the two words of a * FxOne * FxOne
             a == Add2(Mul2(sLat, sLat), Scale2(Mul2(sLon, sLon), Abs(cosines)))
             one == <<FxOne, 0>>
         IN  IF cosines < 0 \/ ~Leq2(a, one)
             THEN NaN   \* Math.sqrt of a negative number
             ELSE LET c == 2 * Atan2Fx(Sqrt2(a), Sqrt2(Sub2(one, a)))
                  IN  RoundedKm(c)

(***************************************************************************)
(* App.tsx: the pure parts of calculateDistances and applyFilters          *)
(***************************************************************************)

\* a.distance || 0: undefined, NaN and 0 are falsy.
DistanceOrZero(school) ==
    IF school.distance = Undefined \/ isNaN(school.distance[1])
    THEN 0
    ELSE school.distance[1]

\* InsertByDistance with a comparator that also moves an element in front of
\* the elements that compare equal to it, as an unstable sort may.
RECURSIVE InsertBeforeEqual(_, _)
InsertBeforeEqual(sorted, school) ==
    IF Len(sorted) = 0 THEN <<school>>
    ELSE IF DistanceOrZero(sorted[Len(sorted)]) - DistanceOrZero(school) >= 0
         THEN Append(InsertBeforeEqual(SubSeq(sorted, 1, Len(sorted) - 1), school),
                     sorted[Len(sorted)])
         ELSE Append(sorted, school)

\* One element put into a list sorted by DistanceOrZero, behind the elements
\* that compare equal to it.
RECURSIVE InsertByDistance(_, _)
InsertByDistance(sorted, school) ==
    IF Len(sorted) = 0 THEN <<school>>
    ELSE IF DistanceOrZero(sorted[Len(sorted)]) - DistanceOrZero(school) > 0
         THEN Append(InsertByDistance(SubSeq(sorted, 1, Len(sorted) - 1), school),
                     sorted[Len(sorted)])
         ELSE Append(sorted, school)

\* Array.prototype.sort with (a, b) => (a.distance || 0) - (b.distance || 0):
\* the sort is stable.
RECURSIVE SortByDistance(_)
SortByDistance(list) ==
    IF Len(list) = 0 THEN <<>>
    ELSE InsertByDistance(SortByDistance(SubSeq(list, 1, Len(list) - 1)), list[Len(list)])

\* schoolList.map(school => ({...school, distance: calculateDistance(...)}))
WithDistances(schoolList, position) ==
    [i \in DOMAIN schoolList |->
        [schoolList[i] EXCEPT !.distance =
            Some(calculateDistance(position.latitude, position.longitude,
                                   schoolList[i].latitude, schoolList[i].longitude))]]

\* The list calculateDistances hands to setSchools and to applyFilters.
calculateDistances(schoolList, position) ==
    SortByDistance(WithDistances(schoolList, position))

\* The level predicate; level is Some(filter), or Undefined for a call that
\* passes no third argument.
LevelKeeps(school, level) ==
    IF ~Truthy(school.name) THEN FALSE
    ELSE LET schoolName == toLowerCase(school.name[1])
         IN  IF level = Some("college")
             THEN includes(schoolName, "collège") \/ includes(schoolName, "college")
             ELSE IF level = Some("lycee")
                  THEN includes(schoolName, "lycée") \/ includes(schoolName, "lycee")
                  ELSE TRUE

\* SectorKeeps comparing the type as it is written, without toLowerCase().
SectorKeepsCaseSensitive(school, sector) ==
    IF ~Truthy(school.type) THEN FALSE
    ELSE IF sector = "public"
         THEN includes(school.type[1], "public")
         ELSE IF sector = "private"
              THEN includes(school.type[1], "privé") \/ includes(school.type[1], "private")
              ELSE TRUE

\* The sector predicate.
SectorKeeps(school, sector) ==
    IF ~Truthy(school.type) THEN FALSE
    ELSE LET schoolType == toLowerCase(school.type[1])
         IN  IF sector = "public"
             THEN includes(schoolType, "public")
             ELSE IF sector = "private"
                  THEN includes(schoolType, "privé") \/ includes(schoolType, "private")
                  ELSE TRUE

\* filtered.filter(school => <level predicate>)
RECURSIVE FilterByLevel(_, _)
FilterByLevel(list, level) ==
    IF Len(list) = 0 THEN <<>>
    ELSE (IF LevelKeeps(list[1], level) THEN <<list[1]>> ELSE <<>>)
         \o FilterByLevel(Tail(list), level)

\* FilterBySector collecting the kept elements from the back.
RECURSIVE FilterBySectorReversed(_, _)
FilterBySectorReversed(list, sector) ==
    IF Len(list) = 0 THEN <<>>
    ELSE FilterBySectorReversed(Tail(list), sector)
         \o (IF SectorKeeps(list[1], sector) THEN <<list[1]>> ELSE <<>>)

\* filtered.filter(school => <sector predicate>)
RECURSIVE FilterBySector(_, _)
FilterBySector(list, sector) ==
    IF Len(list) = 0 THEN <<>>
    ELSE (IF SectorKeeps(list[1], sector) THEN <<list[1]>> ELSE <<>>)
         \o FilterBySector(Tail(list), sector)

\* The list applyFilters hands to setFilteredSchools.
applyFilters(schoolList, sector, level) ==
    LET byLevel == IF level # Some("all") THEN FilterByLevel(schoolList, level)
                   ELSE schoolList
    IN  IF sector # "all" THEN FilterBySector(byLevel, sector) ELSE byLevel

(***************************************************************************)
(* The display helpers of utils/distance.ts, and components/SchoolList.tsx *)
(* and components/Map.tsx                                                  *)
(***************************************************************************)

\* The band thresholds of getDistanceColor and of the label, in km.
getDistanceColor(distance) ==
    IF ~isNaN(distance) /\ distance < 1 * NumScale THEN "text-green-600"
    ELSE IF ~isNaN(distance) /\ distance < 5 * NumScale THEN "text-blue-600"
    ELSE IF ~isNaN(distance) /\ distance < 10 * NumScale THEN "text-yellow-600"
    ELSE "text-red-600"

getDistanceBadgeColor(distance) ==
    IF ~isNaN(distance) /\ distance < 1 * NumScale THEN "bg-green-100 text-green-800"
    ELSE IF ~isNaN(distance) /\ distance < 5 * NumScale THEN "bg-blue-100 text-blue-800"
    ELSE IF ~isNaN(distance) /\ distance < 10 * NumScale THEN "bg-yellow-100 text-yellow-800"
    ELSE "bg-red-100 text-red-800"

\* school.distance && school.distance < limit: undefined, 0 and NaN are falsy.
DistanceBelow(school, limit) ==
    /\ school.distance # Undefined
    /\ ~isNaN(school.distance[1])
    /\ school.distance[1] # 0
    /\ school.distance[1] < limit * NumScale

\* The distance column of one entry of the result list: the class of the
\* figure, the class of the badge and the text of the badge.
DistanceCell(school) ==
    [color |-> getDistanceColor(DistanceOrZero(school)),
     badge |-> getDistanceBadgeColor(DistanceOrZero(school)),
     label |-> IF DistanceBelow(school, 1) THEN "Très proche"
               ELSE IF DistanceBelow(school, 5) THEN "Proche"
               ELSE IF DistanceBelow(school, 10) THEN "Moyennement éloigné"
               ELSE "Éloigné"]

getSchoolType(schoolName) ==
    IF ~Truthy(schoolName) THEN "other"
    ELSE LET name == toLowerCase(schoolName[1])
         IN  IF includes(name, "collège") \/ includes(name, "college") THEN "college"
             ELSE IF includes(name, "lycée") \/ includes(name, "lycee") THEN "lycee"
             ELSE "other"

\* const isNear = school.distance && school.distance < 5, as a condition.
isNear(school) == DistanceBelow(school, 5)

getSchoolIcon(school) ==
    LET schoolType == getSchoolType(school.name)
    IN  IF schoolType = "college"
        THEN (IF isNear(school) THEN "nearCollegeIcon" ELSE "collegeIcon")
        ELSE IF schoolType = "lycee"
             THEN (IF isNear(school) THEN "nearLyceeIcon" ELSE "lyceeIcon")
             ELSE (IF isNear(school) THEN "nearSchoolIcon" ELSE "schoolIcon")

\* The decimal digits of a natural number.
RECURSIVE DigitString(_)
DigitString(n) ==
    IF n < 10 THEN Char(Digits, n + 1)
    ELSE DigitString(n \div 10) \o Char(Digits, (n % 10) + 1)

\* `${x}` for a number: the shortest decimal text of its two decimals.
NumberToString(x) ==
    IF isNaN(x) THEN "NaN"
    ELSE IF x = Infinity THEN "Infinity"
    ELSE IF x = NegInfinity THEN "-Infinity"
    ELSE LET whole == Abs(x) \div NumScale
             cents == Abs(x) % NumScale
         IN  (IF x < 0 THEN "-" ELSE "")
             \o DigitString(whole)
             \o (IF cents = 0 THEN ""
                 ELSE "." \o Char(Digits, (cents \div 10) + 1)
                          \o (IF cents % 10 = 0 THEN "" ELSE Char(Digits, (cents % 10) + 1)))

\* `${text}` for a string that may be undefined.
TemplateText(opt) == IF opt = Undefined THEN "undefined" ELSE opt[1]

\* text || ''
TextOrEmpty(opt) == IF Truthy(opt) THEN opt[1] ELSE ""

ExportHeader == "Rang,Nom,UAI,Distance (km),Latitude,Longitude,Adresse,Type"

\* One line of the export, for the institution at the 0-based index.
ExportRow(school, rank) ==
    DigitString(rank) \o ",\"" \o TemplateText(school.name) \o "\",\""
    \o TextOrEmpty(school.uai) \o "\"," \o NumberToString(DistanceOrZero(school))
    \o "," \o NumberToString(school.latitude) \o "," \o NumberToString(school.longitude)
    \o ",\"" \o TextOrEmpty(school.address) \o "\",\"" \o TextOrEmpty(school.type) \o "\""

\* exportResults numbering the rows from 0.
exportResultsZeroBased(schoolList) ==
    IF Len(schoolList) = 0 THEN Undefined
    ELSE Some(join(<<ExportHeader>>
                   \o [index \in DOMAIN schoolList |->
                          ExportRow(schoolList[index], index - 1)], "\n"))

\* exportResults: the text handed to the download, or nothing at all for an
\* empty list.  index is 1-based here, so index + 1 of the code is index.
exportResults(schoolList) ==
    IF Len(schoolList) = 0 THEN Undefined
    ELSE Some(join(<<ExportHeader>>
                   \o [index \in DOMAIN schoolList |->
                          ExportRow(schoolList[index], index)], "\n"))

(***************************************************************************)
(* utils/geocoding.ts                                                      *)
(***************************************************************************)

\* geocodeAddress, from what the Nominatim request came back with: a rejected
\* fetch or unreadable body is caught and gives null (Undefined), an empty
\* array gives null, and otherwise the first entry is converted.
geocodeAddress(response) ==
    IF response.kind = "reject" THEN Undefined
    ELSE IF Len(response.data) > 0
         THEN Some([latitude |-> parseFloat(response.data[1].lat),
                    longitude |-> parseFloat(response.data[1].lon),
                    displayName |-> response.data[1].display_name])
         ELSE Undefined

(***************************************************************************)
(* The inputs of the model                                                 *)
(***************************************************************************)

\* At most MaxPending asynchronous operations are awaited at a time.
MaxPending == 2

\* A run is followed for MaxEvents mounts, user actions and device requests;
\* what they started is followed to its end.
MaxEvents == 4

FileOfficial ==
    "appellation_officielle;position;secteur\nCollège A;50.7,3.1;public\nLycée B;50.63,3.06;privé"

FileGeneric == "nom;lat;lon;type\nCollege C;50.6;3;public"

FileHeaderOnly == "nom;lat;lon\n"

FileNoSchools == "nom;lat\nCollege C;50.6"

CsvTexts == {FileOfficial, FileGeneric, FileHeaderOnly, FileNoSchools}

\* The files the user may pick or drop.
FileInputs ==
    [type : {"text/csv"}, text : CsvTexts]
    \cup {[type |-> "application/pdf", text |-> FileOfficial]}

\* What fetch('./src/data/lille.csv') may come back with.
FetchResponses ==
    {[kind |-> "reject", ok |-> FALSE, text |-> ""],
     [kind |-> "response", ok |-> FALSE, text |-> ""]}
    \cup [kind : {"response"}, ok : {TRUE}, text : CsvTexts]

\* What the user may type into the address field.
AddressInputs == {" Lille ", "  "}

\* What the user may type into the latitude and longitude fields.
CoordinateInputs == {<<"0", "0">>, <<"50.63", "3.06">>, <<"91", "0">>}

\* What the geocoding service may come back with.
GeocoderResponses ==
    {[kind |-> "reject", data |-> <<>>],
     [kind |-> "json", data |-> <<>>],
     [kind |-> "json",
      data |-> <<[lat |-> "50.63", lon |-> "3.06", display_name |-> "Lille, France"]>>]}

\* The coordinates the device may report.
DevicePositions == {[latitude |-> 0, longitude |-> 0],
                    [latitude |-> 5063, longitude |-> 306]}

SectorFilters == {"all", "public", "private"}

LevelFilters == {"all", "college", "lycee"}

(***************************************************************************)
(* The state: App's useState cells, PositionInput's isGeolocating, and the *)
(* asynchronous operations that are suspended at an await or waiting for   *)
(* the device, each with the values its closure captured when it started.  *)
(***************************************************************************)

VARIABLES
    schools,          \* App: useState<School[]>([])
    filteredSchools,  \* App: useState<School[]>([])
    userPosition,     \* App: useState<Position | null>(null)
    sectorFilter,     \* App: useState('all')
    levelFilter,      \* App: useState('all')
    isLoading,        \* App: useState(false)
    error,            \* App: useState<string | null>(null)
    isGeolocating,    \* PositionInput: useState(false)
    mounted,          \* whether the mount effect has run
    pending,          \* the suspended operations, in the order they started
    loaded,           \* history: the institutions of the last successful load
    last,             \* history: the handler that ran last, and how it ended
    events,           \* history: the number of mounts, user actions, device requests
    call,             \* a function applied on its own: its name and arguments
    result            \* the value that application returned, once applied

vars == <<schools, filteredSchools, userPosition, sectorFilter, levelFilter,
          isLoading, error, isGeolocating, mounted, pending, loaded, last, events,
          call, result>>

appState == <<schools, filteredSchools, userPosition, sectorFilter, levelFilter>>

HandlerOps == {"loadInitialData", "handleFileSelect", "handlePositionSet"}

\* The indices of the handler invocations suspended at an await.
Suspended(tasks) == {i \in DOMAIN tasks : tasks[i].op \in HandlerOps}

Remove(seq, i) == SubSeq(seq, 1, i - 1) \o SubSeq(seq, i + 1, Len(seq))

\* The record of the handler that ran in this step: op is the handler,
\* outcome how far it got, source where a position came from, concurrent the
\* number of other handler invocations suspended while it ran, and
\* geocodeCalls the geocoder requests made for this submission.
Event(op, outcome, source, concurrent, geocodeCalls) ==
    [op |-> op, outcome |-> outcome, source |-> source,
     concurrent |-> concurrent, geocodeCalls |-> geocodeCalls]

MsgFetchNotOk == "Impossible de charger le fichier lille.csv"

MsgFetchRejected == "Failed to fetch"

MsgInitialNoRows == "Le fichier lille.csv ne contient aucune donnée valide"

MsgInitialNoSchools == "Aucun établissement valide trouvé dans le fichier lille.csv"

MsgFileNoRows == "Le fichier CSV ne contient aucune donnée valide"

MsgFileNoSchools ==
    "Aucun établissement valide trouvé dans le fichier. Vérifiez le format des données."

MsgFileRead == "Erreur lors du traitement du fichier"

MsgGeocode == "Impossible de géolocaliser cette adresse"

\* The state of a freshly constructed App: the useState initial values.
Constructed ==
    /\ schools = <<>>
    /\ filteredSchools = <<>>
    /\ userPosition = Undefined
    /\ sectorFilter = "all"
    /\ levelFilter = "all"
    /\ isLoading = FALSE
    /\ error = Undefined
    /\ isGeolocating = FALSE
    /\ mounted = FALSE
    /\ pending = <<>>
    /\ loaded = <<>>
    /\ last = Event("init", "", "", 0, 0)
    /\ events = 0

NoCall == [fn |-> "none"]

Init ==
    /\ Constructed
    /\ call = NoCall
    /\ result = Undefined

\* One more mount, user action or device request, within the bound.
Tick == events < MaxEvents /\ events' = events + 1 /\ UNCHANGED <<call, result>>

\* The continuation of an awaited operation or a device callback: it is not
\* counted, so that whatever was started can always come back.
Continue == UNCHANGED <<events, call, result>>

(***************************************************************************)
(* loadInitialData (the mount effect)                                      *)
(***************************************************************************)

\* useEffect(() => { ... loadInitialData(); }, []): runs to its first await.
\* The closure is the first render's: both filters are 'all'.
Mount ==
    /\ Tick
    /\ ~mounted
    /\ mounted' = TRUE
    /\ isLoading' = TRUE
    /\ error' = Undefined
    /\ pending' = Append(pending, [op |-> "loadInitialData",
                                   sector |-> sectorFilter, level |-> levelFilter])
    /\ last' = Event("loadInitialData", "started", "", Cardinality(Suspended(pending)), 0)
    /\ UNCHANGED <<appState, isGeolocating, loaded>>

\* loadInitialData from the fetch to its end.  A success calls applyFilters
\* twice, the second time without the level argument, and that call decides
\* filteredSchools; setSchools is not called.
LoadInitialDataResume(i, response) ==
    /\ Continue
    /\ pending[i].op = "loadInitialData"
    /\ pending' = Remove(pending, i)
    /\ isLoading' = FALSE
    /\ LET task == pending[i]
           others == Cardinality(Suspended(pending)) - 1
           csvRows == parseCSV(response.text)
           parsedSchools == csvRowsToSchools(csvRows)
           failure == IF response.kind = "reject" THEN MsgFetchRejected
                      ELSE IF ~response.ok THEN MsgFetchNotOk
                      ELSE IF Len(csvRows) = 0 THEN MsgInitialNoRows
                      ELSE IF Len(parsedSchools) = 0 THEN MsgInitialNoSchools
                      ELSE ""
       IN  IF failure # ""
           THEN /\ error' = Some(failure)
                /\ last' = Event("loadInitialData", "failed", "", others, 0)
                /\ UNCHANGED <<appState, loaded>>
           ELSE /\ filteredSchools' = applyFilters(parsedSchools, task.sector, Undefined)
                /\ loaded' = parsedSchools
                /\ last' = Event("loadInitialData", "ok", "", others, 0)
                /\ UNCHANGED <<schools, userPosition, sectorFilter, levelFilter, error>>
    /\ UNCHANGED <<isGeolocating, mounted>>

(***************************************************************************)
(* handleFileSelect                                                        *)
(***************************************************************************)

\* FileUpload hands over a picked or dropped file of type text/csv; its drop
\* zone ignores the pointer while isLoading.  handleFileSelect runs to
\* await file.text().
HandleFileSelect(file) ==
    /\ Tick
    /\ mounted
    /\ ~isLoading
    /\ file.type = "text/csv"
    /\ Len(pending) < MaxPending
    /\ isLoading' = TRUE
    /\ error' = Undefined
    /\ pending' = Append(pending, [op |-> "handleFileSelect", text |-> file.text,
                                   userPosition |-> userPosition,
                                   sector |-> sectorFilter, level |-> levelFilter])
    /\ last' = Event("handleFileSelect", "started", "", Cardinality(Suspended(pending)), 0)
    /\ UNCHANGED <<appState, isGeolocating, mounted, loaded>>

\* FileSelectFails with the collection and the display emptied before the
\* message is shown.
FileSelectFailsClearing(message, outcome, others) ==
    /\ error' = Some(message)
    /\ last' = Event("handleFileSelect", outcome, "", others, 0)
    /\ schools' = <<>>
    /\ filteredSchools' = <<>>
    /\ UNCHANGED <<userPosition, sectorFilter, levelFilter, loaded>>

\* The throw statements and the catch block of handleFileSelect: the message
\* is shown and nothing else is set.
FileSelectFails(message, outcome, others) ==
    /\ error' = Some(message)
    /\ last' = Event("handleFileSelect", outcome, "", others, 0)
    /\ UNCHANGED <<appState, loaded>>

\* handleFileSelect from the file's text to its end; readable is whether
\* file.text() resolved.
HandleFileSelectResume(i, readable) ==
    /\ Continue
    /\ pending[i].op = "handleFileSelect"
    /\ pending' = Remove(pending, i)
    /\ isLoading' = FALSE
    /\ LET task == pending[i]
           others == Cardinality(Suspended(pending)) - 1
           csvRows == parseCSV(task.text)
           parsedSchools == csvRowsToSchools(csvRows)
           failure == IF ~readable THEN MsgFileRead
                      ELSE IF Len(csvRows) = 0 THEN MsgFileNoRows
                      ELSE IF Len(parsedSchools) = 0 THEN MsgFileNoSchools
                      ELSE ""
           outcome == IF ~readable THEN "readFailed"
                      ELSE IF Len(csvRows) = 0 THEN "noRows" ELSE "noSchools"
       IN  IF failure # ""
           THEN FileSelectFails(failure, outcome, others)
           ELSE /\ IF task.userPosition # Undefined
                   THEN LET updatedSchools ==
                                calculateDistances(parsedSchools, task.userPosition[1])
                        IN  /\ schools' = updatedSchools
                            /\ filteredSchools' =
                                   applyFilters(updatedSchools, task.sector, Some(task.level))
                   ELSE /\ schools' = parsedSchools
                        /\ filteredSchools' =
                               applyFilters(parsedSchools, task.sector, Some(task.level))
                /\ loaded' = parsedSchools
                /\ last' = Event("handleFileSelect", "ok", "", others, 0)
                /\ UNCHANGED <<userPosition, sectorFilter, levelFilter, error>>
    /\ UNCHANGED <<isGeolocating, mounted>>

(***************************************************************************)
(* handlePositionSet                                                       *)
(***************************************************************************)

\* PositionSetFinish without setUserPosition(finalPosition).
PositionSetFinishKeepsPosition(finalPosition, closure, source, others, geocodeCalls) ==
    /\ IF Len(closure.schools) > 0
       THEN LET updatedSchools == calculateDistances(closure.schools, finalPosition)
            IN  /\ schools' = updatedSchools
                /\ filteredSchools' =
                       applyFilters(updatedSchools, closure.sector, Some(closure.level))
       ELSE /\ filteredSchools' = closure.schools
            /\ UNCHANGED schools
    /\ isLoading' = FALSE
    /\ error' = Undefined
    /\ last' = Event("handlePositionSet", "ok", source, others, geocodeCalls)
    /\ UNCHANGED <<userPosition, sectorFilter, levelFilter, mounted, loaded>>

\* handlePositionSet from setUserPosition(finalPosition) to its end, with the
\* schools and filters of the closure it runs in.
PositionSetFinish(finalPosition, closure, source, others, geocodeCalls) ==
    /\ userPosition' = Some(finalPosition)
    /\ IF Len(closure.schools) > 0
       THEN LET updatedSchools == calculateDistances(closure.schools, finalPosition)
            IN  /\ schools' = updatedSchools
                /\ filteredSchools' =
                       applyFilters(updatedSchools, closure.sector, Some(closure.level))
       ELSE /\ filteredSchools' = closure.schools
            /\ UNCHANGED schools
    /\ isLoading' = FALSE
    /\ error' = Undefined
    /\ last' = Event("handlePositionSet", "ok", source, others, geocodeCalls)
    /\ UNCHANGED <<sectorFilter, levelFilter, mounted, loaded>>

\* position.address && position.latitude === 0 && position.longitude === 0
NeedsGeocoding(position) ==
    Truthy(position.address) /\ position.latitude = 0 /\ position.longitude = 0

\* handlePositionSet from its call on: to await geocodeAddress(...) when the
\* position asks for geocoding, else to its end.  tasks are the operations
\* still pending when it runs.
HandlePositionSet(position, closure, source, tasks) ==
    IF NeedsGeocoding(position)
    THEN /\ isLoading' = TRUE
         /\ error' = Undefined
         /\ pending' = Append(tasks, [op |-> "handlePositionSet", source |-> source,
                                      address |-> position.address[1],
                                      schools |-> closure.schools,
                                      sector |-> closure.sector, level |-> closure.level,
                                      geocodeCalls |-> 1])
         /\ last' = Event("handlePositionSet", "started", source,
                          Cardinality(Suspended(tasks)), 1)
         /\ UNCHANGED <<appState, mounted, loaded>>
    ELSE /\ pending' = tasks
         /\ PositionSetFinish(position, closure, source, Cardinality(Suspended(tasks)), 0)

\* The values of the current render, which a handler called now closes over.
CurrentClosure == [schools |-> schools, sector |-> sectorFilter, level |-> levelFilter]

\* PositionInput.handleAddressSubmit; the submit button is disabled while
\* isLoading or while the trimmed address is empty.
HandleAddressSubmit(address) ==
    /\ Tick
    /\ mounted
    /\ ~isLoading
    /\ trim(address) # ""
    /\ Len(pending) < MaxPending
    /\ HandlePositionSet([latitude |-> 0, longitude |-> 0, address |-> Some(trim(address))],
                         CurrentClosure, "address", pending)
    /\ UNCHANGED isGeolocating

\* PositionInput.handleCoordinatesSubmit; the submit button is disabled
\* while isLoading or while a field is empty.
HandleCoordinatesSubmit(latitude, longitude) ==
    /\ Tick
    /\ mounted
    /\ ~isLoading
    /\ latitude # "" /\ longitude # ""
    /\ LET lat == parseFloat(latitude)
           lon == parseFloat(longitude)
       IN  /\ ~isNaN(lat) /\ ~isNaN(lon)
           /\ lat >= 0 - 90 * NumScale /\ lat <= 90 * NumScale
           /\ lon >= 0 - 180 * NumScale /\ lon <= 180 * NumScale
           /\ HandlePositionSet([latitude |-> lat, longitude |-> lon, address |-> Undefined],
                                CurrentClosure, "coordinates", pending)
    /\ UNCHANGED isGeolocating

\* GeocodeFails with the request sent again after the message is shown.
GeocodeFailsRetrying(i, others) ==
    /\ pending' = [pending EXCEPT ![i].geocodeCalls = @ + 1]
    /\ error' = Some(MsgGeocode)
    /\ isLoading' = TRUE
    /\ last' = Event("handlePositionSet", "geocodeNull", pending[i].source,
                     others, pending[i].geocodeCalls + 1)
    /\ UNCHANGED <<appState, mounted, loaded>>

\* GeocodeFails without the finally block.
GeocodeFailsKeepsLoading(i, others) ==
    /\ pending' = Remove(pending, i)
    /\ error' = Some(MsgGeocode)
    /\ UNCHANGED isLoading
    /\ last' = Event("handlePositionSet", "geocodeNull", pending[i].source,
                     others, pending[i].geocodeCalls)
    /\ UNCHANGED <<appState, mounted, loaded>>

\* if (!geocoded) throw ..., the catch block and the finally block of
\* handlePositionSet: the invocation pending[i] ends with the message shown
\* and no further request.
GeocodeFails(i, others) ==
    /\ pending' = Remove(pending, i)
    /\ error' = Some(MsgGeocode)
    /\ isLoading' = FALSE
    /\ last' = Event("handlePositionSet", "geocodeNull", pending[i].source,
                     others, pending[i].geocodeCalls)
    /\ UNCHANGED <<appState, mounted, loaded>>

\* handlePositionSet from the geocoder's answer to its end.
GeocodeResume(i, response) ==
    /\ Continue
    /\ pending[i].op = "handlePositionSet"
    /\ LET task == pending[i]
           others == Cardinality(Suspended(pending)) - 1
           geocoded == geocodeAddress(response)
       IN  IF geocoded = Undefined
           THEN GeocodeFails(i, others)
           ELSE /\ pending' = Remove(pending, i)
                /\ PositionSetFinish([latitude |-> geocoded[1].latitude,
                                   longitude |-> geocoded[1].longitude,
                                   address |-> Some(geocoded[1].displayName)],
                                  task, task.source, others, task.geocodeCalls)
    /\ UNCHANGED isGeolocating

(***************************************************************************)
(* PositionInput.getCurrentLocation                                        *)
(***************************************************************************)

\* The button is disabled while isGeolocating or isLoading.  The callbacks
\* given to the device keep the onPositionSet of the render they were made in.
GetCurrentLocation ==
    /\ Tick
    /\ mounted
    /\ ~isGeolocating
    /\ ~isLoading
    /\ Len(pending) < MaxPending
    /\ isGeolocating' = TRUE
    /\ pending' = Append(pending, [op |-> "getCurrentLocation", schools |-> schools,
                                   sector |-> sectorFilter, level |-> levelFilter])
    /\ last' = Event("getCurrentLocation", "started", "device", 0, 0)
    /\ UNCHANGED <<appState, isLoading, error, mounted, loaded>>

\* The success callback: onPositionSet({latitude, longitude, address:
\* 'Position actuelle'}), then setIsGeolocating(false).
GeolocationSuccess(i, coords) ==
    /\ Continue
    /\ pending[i].op = "getCurrentLocation"
    /\ isGeolocating' = FALSE
    /\ HandlePositionSet([latitude |-> coords.latitude, longitude |-> coords.longitude,
                          address |-> Some("Position actuelle")],
                         pending[i], "device", Remove(pending, i))

\* The error callback: an alert, then setIsGeolocating(false).
GeolocationError(i) ==
    /\ Continue
    /\ pending[i].op = "getCurrentLocation"
    /\ isGeolocating' = FALSE
    /\ pending' = Remove(pending, i)
    /\ last' = Event("getCurrentLocation", "failed", "device", 0, 0)
    /\ UNCHANGED <<appState, isLoading, error, mounted, loaded>>

(***************************************************************************)
(* The filter radio buttons (never disabled)                               *)
(***************************************************************************)

HandleSectorFilterChange(newFilter) ==
    /\ Tick
    /\ mounted
    /\ newFilter # sectorFilter
    /\ sectorFilter' = newFilter
    /\ filteredSchools' = applyFilters(schools, newFilter, Some(levelFilter))
    /\ last' = Event("handleSectorFilterChange", "ok", "", 0, 0)
    /\ UNCHANGED <<schools, userPosition, levelFilter, isLoading, error, isGeolocating,
                   mounted, pending, loaded>>

HandleLevelFilterChange(newFilter) ==
    /\ Tick
    /\ mounted
    /\ newFilter # levelFilter
    /\ levelFilter' = newFilter
    /\ filteredSchools' = applyFilters(schools, sectorFilter, Some(newFilter))
    /\ last' = Event("handleLevelFilterChange", "ok", "", 0, 0)
    /\ UNCHANGED <<schools, userPosition, sectorFilter, isLoading, error, isGeolocating,
                   mounted, pending, loaded>>

Next ==
    \/ Mount
    \/ \E i \in DOMAIN pending, response \in FetchResponses :
           LoadInitialDataResume(i, response)
    \/ \E file \in FileInputs : HandleFileSelect(file)
    \/ \E i \in DOMAIN pending, readable \in BOOLEAN : HandleFileSelectResume(i, readable)
    \/ \E address \in AddressInputs : HandleAddressSubmit(address)
    \/ \E typed \in CoordinateInputs : HandleCoordinatesSubmit(typed[1], typed[2])
    \/ \E i \in DOMAIN pending, response \in GeocoderResponses : GeocodeResume(i, response)
    \/ GetCurrentLocation
    \/ \E i \in DOMAIN pending, coords \in DevicePositions : GeolocationSuccess(i, coords)
    \/ \E i \in DOMAIN pending : GeolocationError(i)
    \/ \E newFilter \in SectorFilters : HandleSectorFilterChange(newFilter)
    \/ \E newFilter \in LevelFilters : HandleLevelFilterChange(newFilter)

Spec == Init /\ [][Next]_vars

\* An awaited fetch, file read or geocoding request resolves or rejects in
\* the end: the continuation of a suspended handler is not postponed forever.
AwaitedOperationsSettle ==
    /\ WF_vars(\E i \in DOMAIN pending, response \in FetchResponses :
                   LoadInitialDataResume(i, response))
    /\ WF_vars(\E i \in DOMAIN pending, readable \in BOOLEAN :
                   HandleFileSelectResume(i, readable))
    /\ WF_vars(\E i \in DOMAIN pending, response \in GeocoderResponses :
                   GeocodeResume(i, response))

SpecLive == Init /\ [][Next]_vars /\ AwaitedOperationsSettle

(***************************************************************************)
(* calculateDistances and applyFilters applied on their own: the arguments *)
(* are drawn from the lists App can hold, the application is one step.     *)
(***************************************************************************)

\* A file whose rows give institutions at the same distance from (0, 0), one
\* at distance zero, one with an infinite latitude, and two read from the
\* generic columns (they carry no name; one has an empty type).
FilePool ==
    "appellation_officielle;position;secteur;nom;lat;lon;type\n"
    \o "Collège A;1,0;public;;;;\n"
    \o "LYCÉE B;-1,0;Privé sous contrat;;;;\n"
    \o "College C;0,0;;;;;\n"
    \o "Lycee D;Infinity,0;private;;;;\n"
    \o ";;;Ecole E;0.5;0;public\n"
    \o ";;;Ecole F;2;0;"

SchoolPool == Range(csvRowsToSchools(parseCSV(FilePool)))

\* The lists handed to the two functions have at most MaxListLen elements.
MaxListLen == 3

\* The lists of distinct institutions of the pool.
FreshLists ==
    UNION {{list \in [1..n -> SchoolPool] :
               \A i, j \in 1..n : i # j => list[i] # list[j]} : n \in 0..MaxListLen}

\* The reference positions the lists are ranked from.
PositionPool ==
    {[latitude |-> 0, longitude |-> 0, address |-> Undefined],
     [latitude |-> 50, longitude |-> 0, address |-> Some("Position actuelle")],
     [latitude |-> 5063, longitude |-> 306, address |-> Some("Lille, France")]}

\* App holds a list as it was parsed, or as an earlier position ranked it.
HeldLists ==
    FreshLists
    \cup {calculateDistances(list, [latitude |-> 5063, longitude |-> 306,
                                    address |-> Undefined]) : list \in FreshLists}

\* A file of generic columns without a type column: its institutions have
\* no type (and no name).
FileNoType == "nom;lat;lon\nCollege G;3;0\nLycee H;4;0"

TypelessPool == Range(csvRowsToSchools(parseCSV(FileNoType)))

TypelessLists ==
    UNION {{list \in [1..n -> TypelessPool] :
               \A i, j \in 1..n : i # j => list[i] # list[j]} : n \in 0..MaxListLen}

\* The third argument of applyFilters: a level filter, or none at all.
LevelArguments == {Some(level) : level \in LevelFilters} \cup {Undefined}

PureCalls ==
    [fn : {"calculateDistances"}, schoolList : HeldLists, position : PositionPool]
    \cup [fn : {"applyFilters"}, schoolList : HeldLists \cup TypelessLists,
          sector : SectorFilters, level : LevelArguments]

InitPure ==
    /\ Constructed
    /\ call \in PureCalls
    /\ result = Undefined

ApplyCalculateDistances ==
    /\ call.fn = "calculateDistances"
    /\ result = Undefined
    /\ result' = Some(calculateDistances(call.schoolList, call.position))
    /\ UNCHANGED <<appState, isLoading, error, isGeolocating, mounted, pending,
                   loaded, last, events, call>>

ApplyApplyFilters ==
    /\ call.fn = "applyFilters"
    /\ result = Undefined
    /\ result' = Some(applyFilters(call.schoolList, call.sector, call.level))
    /\ UNCHANGED <<appState, isLoading, error, isGeolocating, mounted, pending,
                   loaded, last, events, call>>

NextPure ==
    \/ ApplyCalculateDistances
    \/ ApplyApplyFilters

SpecPure == InitPure /\ [][NextPure]_vars

(***************************************************************************)
(* csvRowsToSchools applied on its own to lists of rows.                   *)
(***************************************************************************)

\* Rows of the official dataset.
RowOfficial ==
    [appellation_officielle |-> "Collège A", position |-> "50.7, 3.1",
     secteur |-> "public", ips |-> "101.5", uai |-> "0590001A",
     libelle_commune |-> "Lille", libelle_departement |-> "Nord"]

RowOfficialBare ==
    [appellation_officielle |-> "Lycée B", position |-> "50.63,3.06",
     secteur |-> "", ips |-> "", uai |-> ""]

\* Its position has one token; the generic columns are filled as well.
RowOfficialOneToken ==
    [appellation_officielle |-> "College C", position |-> "50.7",
     nom |-> "College C", lat |-> "50.7", lon |-> "3.1", type |-> "public"]

RowOfficialThreeTokens ==
    [appellation_officielle |-> "College D", position |-> "1,2,3", secteur |-> "privé"]

RowOfficialNotNumeric ==
    [appellation_officielle |-> "College E", position |-> "abc,3.1", ips |-> "90"]

RowOfficialPartlyNumeric ==
    [appellation_officielle |-> "College F", position |-> "50.7abc,3.1"]

RowOfficialInfinite ==
    [appellation_officielle |-> "College G", position |-> "Infinity,0"]

\* Its position is empty: the generic columns decide.
RowOfficialNoPosition ==
    [appellation_officielle |-> "College H", position |-> "", secteur |-> "public",
     nom |-> "Ecole H", lat |-> "45", lon |-> "5", type |-> "private"]

\* Rows of generic columns.
RowGeneric == [nom |-> "École B", lat |-> "45.0", lon |-> "5.0"]

\* For every field two candidate columns are present; the first name column
\* is empty.
RowGenericFull ==
    [name |-> "", nom |-> "Ecole I", latitude |-> "45.5", lat |-> "89",
     longitude |-> "5.5", lon |-> "0", address |-> "1 rue X", adresse |-> "2 rue Y",
     type |-> "public", category |-> "private", uai |-> "0590002B"]

RowGenericNoLon == [nom |-> "Ecole J", lat |-> "45"]

RowGenericNoName == [lat |-> "45", lon |-> "5", type |-> "public"]

RowGenericNotNumeric == [nom |-> "Ecole K", lat |-> "abc", lon |-> "5"]

\* The first latitude column present is empty, a later one is filled.
RowGenericEmptyFirst == [nom |-> "Ecole L", latitude |-> "", lat |-> "45", lon |-> "5"]

RowPool ==
    {RowOfficial, RowOfficialBare, RowOfficialOneToken, RowOfficialThreeTokens,
     RowOfficialNotNumeric, RowOfficialPartlyNumeric, RowOfficialInfinite,
     RowOfficialNoPosition, RowGeneric, RowGenericFull, RowGenericNoLon,
     RowGenericNoName, RowGenericNotNumeric, RowGenericEmptyFirst}

\* The lists of rows handed to csvRowsToSchools have at most MaxRows rows.
MaxRows == 2

RowLists == UNION {[1..n -> RowPool] : n \in 0..MaxRows}

NormalizeCalls == [fn : {"csvRowsToSchools"}, rows : RowLists]

InitNormalize ==
    /\ Constructed
    /\ call \in NormalizeCalls
    /\ result = Undefined

ApplyCsvRowsToSchools ==
    /\ call.fn = "csvRowsToSchools"
    /\ result = Undefined
    /\ result' = Some(csvRowsToSchools(call.rows))
    /\ UNCHANGED <<appState, isLoading, error, isGeolocating, mounted, pending,
                   loaded, last, events, call>>

NextNormalize == ApplyCsvRowsToSchools

SpecNormalize == InitNormalize /\ [][NextNormalize]_vars

(***************************************************************************)
(* parseCSV and parseCSVLine applied on their own, and csvRowsToSchools    *)
(* applied to what parseCSV returns.                                       *)
(***************************************************************************)

HeaderPool == {"a;b", " 'a' ;\"b\"", "a"}

\* Data lines of one, two and three fields, with quoted separators, quotes
\* left open, quotes and blanks to clean, and an empty line.
LinePool ==
    {"1;2", "\"x;y\";z", " 1 ; '2' ", "1;2;3", "7", "", "\"x;y", "x\";\"y;z"}

\* A text has at most MaxLines data lines.
MaxLines == 2

\* The header, a line break and the data lines joined by line breaks.
TextOf(header, lines) == header \o "\n" \o join(lines, "\n")

CsvTextPool ==
    {"", " \n "}
    \cup HeaderPool
    \cup {TextOf(header, lines) :
              header \in HeaderPool,
              lines \in UNION {[1..n -> LinePool] : n \in 0..MaxLines}}
    \cup {FileGeneric, FileNoSchools}

ParseCalls ==
    [fn : {"parseCSV"}, csvText : CsvTextPool]
    \cup [fn : {"parseCSVLine"}, line : LinePool, separator : {";", ","}]
    \cup [fn : {"csvRowsToSchools"}, rows : {parseCSV(csvText) : csvText \in CsvTextPool}]

InitParse ==
    /\ Constructed
    /\ call \in ParseCalls
    /\ result = Undefined

ApplyParseCSV ==
    /\ call.fn = "parseCSV"
    /\ result = Undefined
    /\ result' = Some(parseCSV(call.csvText))
    /\ UNCHANGED <<appState, isLoading, error, isGeolocating, mounted, pending,
                   loaded, last, events, call>>

ApplyParseCSVLine ==
    /\ call.fn = "parseCSVLine"
    /\ result = Undefined
    /\ result' = Some(parseCSVLine(call.line, call.separator))
    /\ UNCHANGED <<appState, isLoading, error, isGeolocating, mounted, pending,
                   loaded, last, events, call>>

NextParse ==
    \/ ApplyParseCSV
    \/ ApplyParseCSVLine
    \/ ApplyCsvRowsToSchools

SpecParse == InitParse /\ [][NextParse]_vars

(***************************************************************************)
(* calculateDistance and the display helpers applied on their own.         *)
(***************************************************************************)

\* Points as [latitude, longitude], in hundredths of a degree.
PointPool ==
    {<<0, 0>>, <<5063, 306>>, <<4885, 235>>, <<0 - 100, 0>>, <<50, 0>>, <<4500, 500>>,
     <<0 - 3387, 15121>>, <<9000, 0>>, <<0, 18000>>, <<Infinity, 0>>, <<NaN, 0>>}

\* Distances at and around the limits of the bands, in hundredths of a km.
DistancePool ==
    {Undefined, Some(NaN), Some(0), Some(1), Some(99), Some(100), Some(499),
     Some(500), Some(999), Some(1000), Some(123456)}

\* The institutions shown: as parsed, as ranked from a position, and with a
\* distance of DistancePool.
ShownSchools ==
    UNION {Range(list) : list \in HeldLists \cup TypelessLists}
    \cup UNION {Range(calculateDistances(list, position)) :
                    list \in FreshLists, position \in PositionPool}
    \cup {[school EXCEPT !.distance = distance] :
              school \in SchoolPool, distance \in DistancePool}

PresentCalls ==
    [fn : {"calculateDistance"}, p : PointPool, q : PointPool]
    \cup [fn : {"exportResults"}, schools : HeldLists \cup TypelessLists]
    \cup [fn : {"getSchoolIcon", "DistanceCell"}, school : ShownSchools]

InitPresent ==
    /\ Constructed
    /\ call \in PresentCalls
    /\ result = Undefined

ApplyCalculateDistance ==
    /\ call.fn = "calculateDistance"
    /\ result = Undefined
    /\ result' = Some(calculateDistance(call.p[1], call.p[2], call.q[1], call.q[2]))
    /\ UNCHANGED <<appState, isLoading, error, isGeolocating, mounted, pending,
                   loaded, last, events, call>>

\* result is <<>> until the function is applied, then the one-element tuple
\* of what it produced: <<<<>>>> when it produced nothing.
ApplyExportResults ==
    /\ call.fn = "exportResults"
    /\ result = Undefined
    /\ result' = Some(exportResults(call.schools))
    /\ UNCHANGED <<appState, isLoading, error, isGeolocating, mounted, pending,
                   loaded, last, events, call>>

ApplyGetSchoolIcon ==
    /\ call.fn = "getSchoolIcon"
    /\ result = Undefined
    /\ result' = Some(getSchoolIcon(call.school))
    /\ UNCHANGED <<appState, isLoading, error, isGeolocating, mounted, pending,
                   loaded, last, events, call>>

ApplyDistanceCell ==
    /\ call.fn = "DistanceCell"
    /\ result = Undefined
    /\ result' = Some(DistanceCell(call.school))
    /\ UNCHANGED <<appState, isLoading, error, isGeolocating, mounted, pending,
                   loaded, last, events, call>>

NextPresent ==
    \/ ApplyCalculateDistance
    \/ ApplyExportResults
    \/ ApplyGetSchoolIcon
    \/ ApplyDistanceCell

SpecPresent == InitPresent /\ [][NextPresent]_vars

(***************************************************************************)
(* The claims.  Those about App are stated over Spec (SpecLive with the    *)
(* awaited operations settling), those about calculateDistances and        *)
(* applyFilters over SpecPure, about csvRowsToSchools over SpecNormalize,  *)
(* about parseCSV over SpecParse, about the display over SpecPresent.      *)
(***************************************************************************)

\* The distance calculateDistances gives a school from a position.
DistanceFrom(position, school) ==
    Some(calculateDistance(position.latitude, position.longitude,
                           school.latitude, school.longitude))

NoDistance(list) == \A i \in DOMAIN list : list[i].distance = Undefined

\* The comparisons of two JavaScript numbers: every comparison with NaN is false.
NumberGreater(a, b) == ~isNaN(a) /\ ~isNaN(b) /\ a > b

NumberEqual(a, b) == ~isNaN(a) /\ ~isNaN(b) /\ a = b

RECURSIVE IsSubsequence(_, _)
IsSubsequence(sub, seq) ==
    IF Len(sub) = 0 THEN TRUE
    ELSE IF Len(seq) = 0 THEN FALSE
    ELSE IF Head(sub) = Head(seq) THEN IsSubsequence(Tail(sub), Tail(seq))
    ELSE IsSubsequence(sub, Tail(seq))

\* A handlePositionSet has just completed without error.
PositionJustSet == last.op = "handlePositionSet" /\ last.outcome = "ok"

\* C1: whenever handlePositionSet has completed without error while a
\* collection has been loaded (by the initial load or by handleFileSelect),
\* the displayed list holds every loaded institution that passes the current
\* filters, each with the distance from the new reference position.
C1_PositionSetRanksLoadedCollection ==
    PositionJustSet =>
        \A school \in Range(applyFilters(loaded, sectorFilter, Some(levelFilter))) :
            \E j \in DOMAIN filteredSchools :
                filteredSchools[j] =
                    [school EXCEPT !.distance = DistanceFrom(userPosition[1], school)]

\* C2: in every state where no load and no reference-position operation is
\* in progress, filteredSchools is the filter applied to schools with the
\* current sectorFilter and levelFilter.
C2_DisplayedIsFilterOfCollection ==
    (pending = <<>> /\ ~isLoading) =>
        filteredSchools = applyFilters(schools, sectorFilter, Some(levelFilter))

\* C3: at most one of loadInitialData, handleFileSelect and handlePositionSet
\* is in progress at any time: no two are suspended together, and none starts
\* or resumes while another is suspended.
C3_StrictlySequential ==
    /\ Cardinality(Suspended(pending)) <= 1
    /\ last.op \in HandlerOps => last.concurrent = 0

\* calculateDistances has been applied to call.schoolList and call.position.
Ranked == call.fn = "calculateDistances" /\ result # Undefined

\* C4: calculateDistances returns a permutation of its input in which every
\* element has the distance from the given position, no element comes before
\* one of smaller distance, and elements of equal distance keep their input
\* order.
C4_RankIsStableAscendingPermutation ==
    Ranked =>
        LET input == call.schoolList
            output == result[1]
            n == Len(input)
        IN  /\ Len(output) = n
            /\ \E from \in [1..n -> 1..n] :
                   /\ \A j, k \in 1..n : j # k => from[j] # from[k]
                   /\ \A j \in 1..n :
                          output[j] = [input[from[j]] EXCEPT
                                          !.distance = DistanceFrom(call.position,
                                                                   input[from[j]])]
                   /\ \A j, k \in 1..n :
                          j < k =>
                              /\ ~NumberGreater(output[j].distance[1], output[k].distance[1])
                              /\ NumberEqual(output[j].distance[1], output[k].distance[1])
                                     => from[j] < from[k]

\* C4's case: a list of three ranked into another order, two of its elements
\* at the same distance.
C4_Witness ==
    /\ Ranked
    /\ Len(result[1]) = 3
    /\ \E j, k \in 1..3 :
           j < k /\ NumberEqual(result[1][j].distance[1], result[1][k].distance[1])
    /\ \E j \in 1..3 : result[1][j].id # call.schoolList[j].id

\* C5: while userPosition is null no institution of schools or of
\* filteredSchools has a distance, and the institutions csvRowsToSchools
\* returned (loaded) never have one.
C5_NoDistanceWithoutPosition ==
    /\ userPosition = Undefined => NoDistance(schools) /\ NoDistance(filteredSchools)
    /\ NoDistance(loaded)

\* C5's case: institutions are held and displayed and no position is set.
C5_Witness ==
    userPosition = Undefined /\ Len(schools) > 0 /\ Len(filteredSchools) > 0

\* handleFileSelect ends in this step on a file without rows or without
\* institutions.
FileRejected ==
    last'.op = "handleFileSelect" /\ last'.outcome \in {"noRows", "noSchools"}

\* C6: when handleFileSelect gets a file whose parse yields no rows or whose
\* normalization yields no institutions, it reports the error message of that
\* case and leaves schools, filteredSchools, userPosition and both filters
\* unchanged, and the file picker is free again for a later load.
C6_RejectedFileChangesNothing ==
    [][FileRejected =>
          /\ error' = Some(IF last'.outcome = "noRows" THEN MsgFileNoRows
                           ELSE MsgFileNoSchools)
          /\ UNCHANGED appState
          /\ ~isLoading']_vars

\* C6's case: a file was rejected while institutions were held and displayed.
C6_Witness ==
    /\ last.op = "handleFileSelect"
    /\ last.outcome \in {"noRows", "noSchools"}
    /\ Len(schools) > 0
    /\ Len(filteredSchools) > 0

\* handlePositionSet ends in this step because the geocoder returned nothing.
GeocodeReturnedNothing ==
    last'.op = "handlePositionSet" /\ last'.outcome = "geocodeNull"

\* C7: when geocoding returns nothing, handlePositionSet reports the 'unable
\* to geolocate' message, leaves userPosition, schools and filteredSchools
\* unchanged, and has called the geocoder once: the invocation is over and
\* no request is outstanding for it.
C7_GeocodeFailureChangesNothing ==
    [][GeocodeReturnedNothing =>
          /\ error' = Some(MsgGeocode)
          /\ UNCHANGED <<userPosition, schools, filteredSchools>>
          /\ last'.geocodeCalls = 1
          /\ \E i \in DOMAIN pending :
                 pending[i].op = "handlePositionSet" /\ pending' = Remove(pending, i)]_vars

\* C7's case: a typed address could not be geocoded while a position was set
\* and institutions were held.
C7_Witness ==
    /\ last.op = "handlePositionSet"
    /\ last.outcome = "geocodeNull"
    /\ last.source = "address"
    /\ userPosition # Undefined
    /\ Len(schools) > 0

\* C8: a position from the device or from the coordinate fields is never
\* passed to the geocoder and is used as it is: no geocoding request is
\* outstanding for one, and a handlePositionSet for one completes without a
\* geocoder call.
C8_CoordinatesNeverGeocoded ==
    /\ \A i \in DOMAIN pending :
           pending[i].op = "handlePositionSet" => pending[i].source = "address"
    /\ (last.op = "handlePositionSet" /\ last.source \in {"device", "coordinates"})
           => last.outcome = "ok" /\ last.geocodeCalls = 0

\* applyFilters has been applied to call.schoolList, call.sector and call.level.
Filtered == call.fn = "applyFilters" /\ result # Undefined

\* C9: the list applyFilters sets is a subsequence of its input: elements are
\* only removed, the others keep their order and every field, distance
\* included.
C9_FilterOnlyRemoves == Filtered => IsSubsequence(result[1], call.schoolList)

\* C9's case: both filters ran on a ranked list, removed some of it and kept
\* at least two elements.
C9_Witness ==
    /\ Filtered
    /\ call.sector # "all"
    /\ call.level \notin {Some("all"), Undefined}
    /\ Len(result[1]) >= 2
    /\ Len(result[1]) < Len(call.schoolList)
    /\ \A j \in DOMAIN result[1] : result[1][j].distance # Undefined

\* The lower-cased name of the school contains one of the words.
NameContains(school, words) ==
    /\ Truthy(school.name)
    /\ \E word \in words : includes(toLowerCase(school.name[1]), word)

\* C10: with level 'college' an institution is kept iff its lower-cased name
\* contains 'collège' or 'college', with 'lycee' iff it contains 'lycée' or
\* 'lycee', and with 'all' or no level argument every institution is kept
\* (the sector filter being 'all').
C10_LevelFilter ==
    (Filtered /\ call.sector = "all") =>
        \A i \in DOMAIN call.schoolList :
            LET school == call.schoolList[i]
                kept == \E j \in DOMAIN result[1] : result[1][j] = school
            IN  kept <=> IF call.level = Some("college")
                         THEN NameContains(school, {"collège", "college"})
                         ELSE IF call.level = Some("lycee")
                              THEN NameContains(school, {"lycée", "lycee"})
                              ELSE TRUE

\* The lower-cased type of the school contains one of the words.
TypeContains(school, words) ==
    /\ Truthy(school.type)
    /\ \E word \in words : includes(toLowerCase(school.type[1]), word)

\* C11: with sector 'public' an institution is kept iff its lower-cased type
\* contains 'public', with 'private' iff it contains 'privé' or 'private',
\* and with 'all' every institution is kept (the level filter being 'all');
\* an institution without a type is kept by 'all' only.
C11_SectorFilter ==
    (Filtered /\ call.level = Some("all")) =>
        \A i \in DOMAIN call.schoolList :
            LET school == call.schoolList[i]
                kept == \E j \in DOMAIN result[1] : result[1][j] = school
            IN  kept <=> IF call.sector = "public"
                         THEN TypeContains(school, {"public"})
                         ELSE IF call.sector = "private"
                              THEN TypeContains(school, {"privé", "private"})
                              ELSE TRUE

\* C11's case: the 'private' filter kept an institution whose type has a
\* capital letter and removed another.
C11_Witness ==
    /\ Filtered
    /\ call.level = Some("all")
    /\ call.sector = "private"
    /\ Len(result[1]) < Len(call.schoolList)
    /\ \E j \in DOMAIN result[1] : result[1][j].type = Some("Privé sous contrat")

\* csvRowsToSchools has been applied to call.rows.
Normalized == call.fn = "csvRowsToSchools" /\ result # Undefined

\* The row an institution of the result was made from: the callback gives
\* it the row's index as id.
RowOf(school) == call.rows[school.id + 1]

\* C12: every institution csvRowsToSchools returns has a non-empty name taken
\* from its row: appellation_officielle in Scheme A, the first name column
\* present in Scheme B.
C12_EveryInstitutionHasRowName ==
    Normalized =>
        \A j \in DOMAIN result[1] :
            LET school == result[1][j]
                row == RowOf(school)
            IN  /\ Truthy(school.name)
                /\ school.name =
                       IF TakesSchemeB(row)
                       THEN Get(row, FindKey(genericNameKeys, row)[1])
                       ELSE Get(row, "appellation_officielle")

\* C13: an institution made by Scheme A from a row with a non-empty uai
\* carries that uai.
C13_SchemeACarriesUai ==
    Normalized =>
        \A j \in DOMAIN result[1] :
            LET school == result[1][j]
                row == RowOf(school)
            IN  (~TakesSchemeB(row) /\ Truthy(Get(row, "uai")))
                    => school.uai = Get(row, "uai")

\* C14: an institution made by Scheme B has no uai, whatever columns its row
\* has.
C14_SchemeBHasNoUai ==
    Normalized =>
        \A j \in DOMAIN result[1] :
            TakesSchemeB(RowOf(result[1][j])) => result[1][j].uai = Undefined

EntirelyNumeric(str) ==
    LET s == trim(str)
        start == IF Len(s) > 0 /\ Char(s, 1) \in {"-", "+"} THEN 2 ELSE 1
        n == DigitRun(s, start)
        dot == start + n <= Len(s) /\ Char(s, start + n) = "."
        m == IF dot THEN DigitRun(s, start + n + 1) ELSE 0
    IN  /\ n + m > 0
        /\ (start - 1) + n + (IF dot THEN 1 + m ELSE 0) = Len(s)

\* The two coordinate texts of a row that made an institution.
CoordinateTexts(row) ==
    IF TakesSchemeB(row)
    THEN <<row[FindKey(genericLatKeys, row)[1]], row[FindKey(genericLonKeys, row)[1]]>>
    ELSE split(row["position"], ",")

\* C16: every institution of a result has a finite latitude and a finite
\* longitude, read from coordinate texts that are entirely numeric: a row
\* whose coordinate text is only partly numeric or denotes an infinite value
\* is not in the result.
C16_CoordinatesFiniteAndNumeric ==
    Normalized =>
        \A j \in DOMAIN result[1] :
            LET school == result[1][j]
                texts == CoordinateTexts(RowOf(school))
            IN  /\ IsFiniteNum(school.latitude)
                /\ IsFiniteNum(school.longitude)
                /\ EntirelyNumeric(texts[1])
                /\ EntirelyNumeric(texts[2])

\* Both fields Scheme A requires are present and non-empty.
SelectsSchemeA(row) ==
    /\ "appellation_officielle" \in DOMAIN row
    /\ row["appellation_officielle"] # ""
    /\ "position" \in DOMAIN row
    /\ row["position"] # ""

\* The columns only the official branch reads, and those only the generic
\* branch reads.
OfficialColumns ==
    {"appellation_officielle", "position", "secteur", "ips",
     "libelle_commune", "libelle_departement"}

GenericColumns ==
    Range(genericNameKeys) \cup Range(genericLatKeys) \cup Range(genericLonKeys)
    \cup Range(genericAddressKeys) \cup Range(genericTypeKeys)

Without(row, columns) == [key \in DOMAIN row \ columns |-> row[key]]

\* The institutions of the result made from row number i.
MadeFrom(i) == {j \in DOMAIN result[1] : result[1][j].id = i - 1}

C18_SchemeAPosition ==
    Normalized =>
        \A i \in DOMAIN call.rows :
            LET row == call.rows[i]
                parts == split(row["position"], ",")
            IN  SelectsSchemeA(row) =>
                    IF /\ Len(parts) = 2
                       /\ ~isNaN(parseFloat(parts[1]))
                       /\ ~isNaN(parseFloat(parts[2]))
                    THEN \E j \in MadeFrom(i) :
                             /\ result[1][j].latitude = parseFloat(parts[1])
                             /\ result[1][j].longitude = parseFloat(parts[2])
                    ELSE MadeFrom(i) = {}

\* C18's case: a position of three tokens is dropped and "50.7, 3.1" gives
\* latitude 50.7 and longitude 3.1.
C18_Witness ==
    /\ Normalized
    /\ call.rows = <<RowOfficialThreeTokens, RowOfficial>>
    /\ Len(result[1]) = 1
    /\ result[1][1].latitude = parseFloat("50.7")
    /\ result[1][1].longitude = parseFloat("3.1")

\* The type the claim gives a Scheme A row.
ExpectedSchemeAType(row) ==
    (IF "secteur" \in DOMAIN row /\ row["secteur"] # ""
     THEN row["secteur"] ELSE "Établissement")
    \o (IF "ips" \in DOMAIN row /\ row["ips"] # ""
        THEN " (IPS: " \o row["ips"] \o ")" ELSE "")

\* C19: the type of a Scheme A institution is its row's secteur when that is
\* non-empty and 'Établissement' otherwise, followed by ' (IPS: <ips>)'
\* exactly when ips is non-empty; it is never empty.
C19_SchemeAType ==
    Normalized =>
        \A j \in DOMAIN result[1] :
            LET school == result[1][j]
                row == RowOf(school)
            IN  SelectsSchemeA(row) =>
                    /\ school.type = Some(ExpectedSchemeAType(row))
                    /\ Truthy(school.type)

\* C19's case: a row with secteur and ips, and a row where both are empty.
C19_Witness ==
    /\ Normalized
    /\ call.rows = <<RowOfficial, RowOfficialBare>>
    /\ Len(result[1]) = 2
    /\ result[1][1].type = Some("public (IPS: 101.5)")
    /\ result[1][2].type = Some("Établissement")

\* The value of the first candidate column present in the row, if any.
FirstPresent(keys, row) ==
    IF FindKey(keys, row) = Undefined THEN Undefined
    ELSE Get(row, FindKey(keys, row)[1])

Parsed == call.fn = "parseCSV" /\ result # Undefined

\* The lines parseCSV sees: the header line, then the data lines.
TextLines(csvText) == split(trim(csvText), "\n")

HeaderCells(csvText) == split(TextLines(csvText)[1], ";")

\* The positions of the data lines that have as many fields as the header.
AcceptedLines(csvText) ==
    {i \in 2..Len(TextLines(csvText)) :
        Len(parseCSVLine(TextLines(csvText)[i], ";")) = Len(HeaderCells(csvText))}

\* The position of the k-th accepted data line.
NthAccepted(csvText, k) ==
    CHOOSE i \in AcceptedLines(csvText) :
        Cardinality({j \in AcceptedLines(csvText) : j < i}) = k - 1

\* The text s without the character c.
RECURSIVE RemoveChar(_, _)
RemoveChar(s, c) ==
    IF s = "" THEN ""
    ELSE (IF Char(s, 1) = c THEN "" ELSE Char(s, 1)) \o RemoveChar(SubSeq(s, 2, Len(s)), c)

\* A cell trimmed, then without single and double quotes.
Cleaned(cell) == RemoveChar(RemoveChar(trim(cell), "'"), "\"")

HeaderNames(csvText) ==
    [j \in DOMAIN HeaderCells(csvText) |-> Cleaned(HeaderCells(csvText)[j])]

\* C21: parseCSV keeps exactly the data lines whose number of parsed fields
\* equals the number of header fields, in their input order, so the result
\* never has more rows than the text has data lines.
C21_AcceptsMatchingFieldCount ==
    Parsed =>
        /\ Len(result[1]) = Cardinality(AcceptedLines(call.csvText))
        /\ Len(result[1]) <= Len(TextLines(call.csvText)) - 1
        /\ \A k \in DOMAIN result[1] :
               result[1][k] =
                   MakeRow(HeaderNames(call.csvText),
                           parseCSVLine(TextLines(call.csvText)[NthAccepted(call.csvText, k)], ";"))

\* A line with too many fields was dropped between two accepted lines.
C21_Witness ==
    /\ Parsed
    /\ call.csvText = TextOf("a;b", <<"1;2;3", " 1 ; '2' ">>)
    /\ Len(result[1]) = 1
    /\ AcceptedLines(call.csvText) = {3}

\* The number of double quotes before position i of the line.
QuotesBefore(line, i) == Cardinality({k \in 1..(i - 1) : Char(line, k) = "\""})

\* The positions of the semicolons preceded by an even number of double quotes.
SplitPoints(line) ==
    {i \in 1..Len(line) : Char(line, i) = ";" /\ QuotesBefore(line, i) % 2 = 0}

\* The k-th stretch of the line between two split points, ends included.
Stretch(line, k) ==
    LET before == {i \in SplitPoints(line) :
                       Cardinality({j \in SplitPoints(line) : j < i}) = k - 2}
        after == {i \in SplitPoints(line) :
                      Cardinality({j \in SplitPoints(line) : j < i}) = k - 1}
        from == IF before = {} THEN 1 ELSE (CHOOSE i \in before : TRUE) + 1
        to == IF after = {} THEN Len(line) ELSE (CHOOSE i \in after : TRUE) - 1
    IN  SubSeq(line, from, to)

\* C22: parseCSVLine splits a line at exactly the semicolons that an even
\* number of double quotes precede, a quoted semicolon stays in the field, and
\* header a;b with row "x;y";z parses to {a: "x;y", b: "z"}.
C22_SplitsOutsideQuotesOnly ==
    /\ (call.fn = "parseCSVLine" /\ call.separator = ";" /\ result # Undefined) =>
           /\ Len(result[1]) = Cardinality(SplitPoints(call.line)) + 1
           /\ \A k \in DOMAIN result[1] :
                  result[1][k] = RemoveChar(Stretch(call.line, k), "\"")
    /\ (Parsed /\ call.csvText = TextOf("a;b", <<"\"x;y\";z">>)) =>
           result[1] = <<[h \in {"a", "b"} |-> IF h = "a" THEN "x;y" ELSE "z"]>>

C22_Witness ==
    /\ call.fn = "parseCSVLine"
    /\ call.line = "\"x;y\";z"
    /\ call.separator = ";"
    /\ result = Some(<<"x;y", "z">>)

\* C23: when the header names are distinct, every accepted row maps the i-th
\* header name (the header cell trimmed and without quotes) to the i-th
\* parsed field trimmed and without single or double quotes.
C23_ValuesAreCleanedFields ==
    (/\ Parsed
     /\ \A i, j \in DOMAIN HeaderNames(call.csvText) :
            HeaderNames(call.csvText)[i] = HeaderNames(call.csvText)[j] => i = j) =>
        \A k \in DOMAIN result[1] :
            LET values == parseCSVLine(TextLines(call.csvText)[NthAccepted(call.csvText, k)], ";")
            IN  /\ DOMAIN result[1][k] = Range(HeaderNames(call.csvText))
                /\ \A i \in DOMAIN HeaderNames(call.csvText) :
                       result[1][k][HeaderNames(call.csvText)[i]] = Cleaned(values[i])

\* Quoted header cells and padded, quoted values were cleaned.
C23_Witness ==
    /\ Parsed
    /\ call.csvText = TextOf(" 'a' ;\"b\"", <<" 1 ; '2' ">>)
    /\ result[1] = <<[h \in {"a", "b"} |-> IF h = "a" THEN "1" ELSE "2"]>>

\* The number of lines of the text that are not blank.
PhysicalLines(csvText) ==
    Cardinality({i \in DOMAIN split(csvText, "\n") : trim(split(csvText, "\n")[i]) # ""})

\* C24: parseCSV returns no row for a text of fewer than two lines (empty, or
\* a header only), and csvRowsToSchools returns no institution for no row.
C24_NothingFromNothing ==
    /\ (Parsed /\ PhysicalLines(call.csvText) < 2) => result[1] = <<>>
    /\ (call.fn = "csvRowsToSchools" /\ result # Undefined /\ call.rows = <<>>) =>
           result[1] = <<>>

\* A header followed by a line break only.
C24_Witness ==
    /\ Parsed
    /\ call.csvText = TextOf("a", <<>>)
    /\ result = Some(<<>>)


\* C25: exportResults of a list of N institutions gives N + 1 lines for every
\* N from 0 on: the header, then one row per institution in list order
\* whose first column is its 1-based position.
C25_ExportHasHeaderAndOneRowEach ==
    (call.fn = "exportResults" /\ result # Undefined) =>
        /\ result[1] # Undefined
        /\ LET lines == split(result[1][1], "\n")
           IN  /\ Len(lines) = Len(call.schools) + 1
               /\ lines[1] = ExportHeader
               /\ \A k \in DOMAIN call.schools :
                      /\ split(lines[k + 1], ",")[1] = DigitString(k)
                      /\ split(lines[k + 1], ",")[2]
                             = "\"" \o TemplateText(call.schools[k].name) \o "\""

\* C25, for the lists the export exists for: of N >= 1 institutions it gives
\* N + 1 lines, the header and one row per institution in list order whose
\* first column is its 1-based position; of no institution it gives nothing.
C25_ExportOfNonEmptyList ==
    (call.fn = "exportResults" /\ result # Undefined) =>
        IF Len(call.schools) = 0 THEN result[1] = Undefined
        ELSE /\ result[1] # Undefined
             /\ LET lines == split(result[1][1], "\n")
                IN  /\ Len(lines) = Len(call.schools) + 1
                    /\ lines[1] = ExportHeader
                    /\ \A k \in DOMAIN call.schools :
                           /\ split(lines[k + 1], ",")[1] = DigitString(k)
                           /\ split(lines[k + 1], ",")[2]
                                  = "\"" \o TemplateText(call.schools[k].name) \o "\""

\* Three ranked institutions were exported.
C25_Witness ==
    /\ call.fn = "exportResults"
    /\ Len(call.schools) = 3
    /\ call.schools[1].distance # Undefined
    /\ result # Undefined
    /\ Len(split(result[1][1], "\n")) = 4

\* C26: calculateDistance gives the same distance from p to q as from q to p.
C26_DistanceIsSymmetric ==
    (call.fn = "calculateDistance" /\ result # Undefined) =>
        result[1] = calculateDistance(call.q[1], call.q[2], call.p[1], call.p[2])

\* Two distinct points some thousands of km apart, in both directions.
C26_Witness ==
    /\ call.fn = "calculateDistance"
    /\ call.p = <<5063, 306>>
    /\ call.q = <<0 - 3387, 15121>>
    /\ result # Undefined
    /\ result[1] > 10000 * NumScale
    /\ IsFiniteNum(result[1])

NearIcons == {"nearCollegeIcon", "nearLyceeIcon", "nearSchoolIcon"}

\* C27: an institution has a near marker exactly when its computed distance
\* is below 5 km, a distance of 0 included.
C27_NearIsBelowFive ==
    (call.fn = "getSchoolIcon" /\ result # Undefined /\ call.school.distance # Undefined) =>
        (result[1] \in NearIcons
            <=> (~isNaN(call.school.distance[1])
                 /\ call.school.distance[1] < 5 * NumScale))

\* The band of a class or a label: 1 below 1 km, 2 below 5 km, 3 below
\* 10 km, 4 from 10 km on.
BandOf(text) ==
    IF text \in {"text-green-600", "bg-green-100 text-green-800", "Très proche"} THEN 1
    ELSE IF text \in {"text-blue-600", "bg-blue-100 text-blue-800", "Proche"} THEN 2
    ELSE IF text \in {"text-yellow-600", "bg-yellow-100 text-yellow-800",
                      "Moyennement éloigné"} THEN 3
    ELSE 4

\* C28: for every distance from 0 on, and for an absent distance, the label
\* of the result list is of the same band as the two colours.
C28_LabelBandIsColorBand ==
    (/\ call.fn = "DistanceCell"
     /\ result # Undefined
     /\ (call.school.distance # Undefined => ~isNaN(call.school.distance[1]))) =>
        /\ BandOf(result[1].label) = BandOf(result[1].color)
        /\ BandOf(result[1].label) = BandOf(result[1].badge)


\* C29: isLoading is true whenever a loadInitialData, handleFileSelect or
\* handlePositionSet invocation is in progress.
C29_LoadingWhileInProgress == Suspended(pending) # {} => isLoading

\* The step starts an invocation of one of the three handlers, or runs a
\* whole handlePositionSet that needs no geocoding.
StartsInvocation ==
    /\ last'.op \in HandlerOps
    /\ \/ last'.outcome = "started"
       \/ last'.op = "handlePositionSet" /\ last'.geocodeCalls = 0

\* The step ends an invocation of one of the three handlers.
EndsInvocation == last'.op \in HandlerOps /\ last'.outcome # "started"

\* C30: every suspended invocation of the three handlers ends, provided the
\* awaited operations settle; the step that ends an invocation, with or
\* without a failure, leaves isLoading false, and the step that starts one
\* clears the error message.
C30_InvocationsEndAndResetLoading ==
    /\ (Suspended(pending) # {}) ~> (Suspended(pending) = {})
    /\ [][EndsInvocation => ~isLoading']_vars
    /\ [][StartsInvocation => (IF EndsInvocation THEN error' = Undefined
                               ELSE error' = Undefined /\ isLoading')]_vars

\* A geocoding request came back empty while an earlier message was
\* cleared: the invocation ended with the message shown and isLoading false.
C30_Witness ==
    /\ last.op = "handlePositionSet"
    /\ last.outcome = "geocodeNull"
    /\ Suspended(pending) = {}
    /\ ~isLoading
    /\ error = Some(MsgGeocode)


=============================================================================
